---- MODULE Spec2Model ----
(***************************************************************************)
(* DocAI: structural code extractor (github_ingestion.py), repository      *)
(* ingestion and the retrieval / answer composer (app/core/rag_pipeline.py,*)
(* github.py), as state machines.                                          *)
(*                                                                         *)
(* Strings are modelled as sequences of tokens, paths as sequences of path *)
(* components, Python dicts as TLA+ records / functions on string keys.    *)
(***************************************************************************)
EXTENDS Integers, Sequences, FiniteSets, TLC

VARIABLES
    repo,           \* the remote repository a job ingests: url, branch, files
    workdir,        \* files present in the clone directory (<<>> before the clone)
    pc,             \* position of process_repository
    python_files,   \* result of find_python_files: absolute paths
    cursor,         \* index of the next file of the `for file_path in python_files` loop
    all_documents,  \* process_repository's accumulator / return value
    error,          \* the exception process_repository raised: "none", "clone", "parse"
    collection,     \* chunks stored in the Chroma collection
    request,        \* the last query request: route, question, filter
    response,       \* what the last query handed to its caller
    calls,          \* the backend calls the last query made, with their outcome
    exists,         \* whether the Chroma collection exists in the store
    inits,          \* position of every RAGPipeline() initialisation in progress
    uuid,           \* how many uuid4 values have been drawn
    project,        \* process_github_repo's project_id argument
    result,         \* process_github_repo's return value, once it has returned
    other,          \* a second process_github_repo call running on the same pipeline
    otherdir,       \* its clone directory, when that is not the first call's
    uploads,        \* the process_document calls queued as background tasks
    doc_call,       \* the last process_document call: arguments and outcome
    db,             \* the committed rows of documents, projects and code_projects
    disk,           \* the files saved in TEMP_UPLOAD_DIR
    tasks,          \* the add_task calls of the request in progress, in order
    handler         \* the HTTP request in progress: route, position, response

repoVars == <<repo, workdir, pc, python_files, cursor, all_documents, error>>
queryVars == <<collection, request, response, calls>>
pipeVars == <<exists, inits, uuid, project, result, other, otherdir, uploads, doc_call>>
apiVars == <<db, disk, tasks, handler>>
vars == <<repo, workdir, pc, python_files, cursor, all_documents, error,
          collection, request, response, calls,
          exists, inits, uuid, project, result, other, otherdir, uploads, doc_call,
          db, disk, tasks, handler>>

-----------------------------------------------------------------------------
(* Bounds of the model *)

MaxNodes == 3        \* definitions / statements per parsed source file
MaxFiles == 2        \* files per repository in a batch
MaxArgs == 2         \* parameters per method
MaxDecorators == 2   \* decorators per method
MaxChunks == 4       \* chunks stored in the collection when queries run
MaxQuestionLen == 2  \* characters per question

-----------------------------------------------------------------------------
(* Generic helpers *)

None == <<"None">>     \* Python None, where a string (a token sequence) may stand
NoLine == 0            \* a line attribute that is None

Range(s) == {s[i] : i \in 1..Len(s)}

Max(S) == CHOOSE m \in S : \A x \in S : x <= m

SeqsUpTo(S, n) == UNION {[1..k -> S] : k \in 0..n}

\* Python truthiness of a str / list / dict-like sequence
Truthy(s) == s # None /\ s # <<>>

-----------------------------------------------------------------------------
(* Paths: os.path on sequences of components, each component a string *)

dirname(p) == IF Len(p) = 0 THEN p ELSE SubSeq(p, 1, Len(p) - 1)

basename(p) == IF Len(p) = 0 THEN <<>> ELSE p[Len(p)]

CommonPrefixLen(p, q) ==
    Max({k \in 0..Len(p) : k <= Len(q) /\ \A i \in 1..k : p[i] = q[i]})

\* os.path.relpath(path, start)
relpath(path, start) ==
    LET c == CommonPrefixLen(path, start)
        ups == [i \in 1..(Len(start) - c) |-> <<"..">>]
        rest == SubSeq(path, c + 1, Len(path))
    IN  IF ups \o rest = <<>> THEN << <<".">> >> ELSE ups \o rest

-----------------------------------------------------------------------------
(* Repository URLs: sequences of tokens in which every occurrence of the   *)
(* substring ".git" is a token of its own.                                 *)

RECURSIVE LastSlash(_, _)
LastSlash(url, i) ==
    IF i = 0 THEN 0 ELSE IF url[i] = "/" THEN i ELSE LastSlash(url, i - 1)

\* url.split("/")[-1]
LastSegment(url) == SubSeq(url, LastSlash(url, Len(url)) + 1, Len(url))

\* s.replace(".git", "")
RECURSIVE RemoveDotGit(_)
RemoveDotGit(s) ==
    IF s = <<>> THEN <<>>
    ELSE IF Head(s) = ".git" THEN RemoveDotGit(Tail(s))
    ELSE <<Head(s)>> \o RemoveDotGit(Tail(s))

repo_name(repo_url) == RemoveDotGit(LastSegment(repo_url))

temp_dir == << <<"tmp">>, <<"docai_github_">> >>

clone_dir(repo_url) == temp_dir \o <<repo_name(repo_url)>>

-----------------------------------------------------------------------------
(* Source files and their syntax trees.                                    *)
(* A tree is a function 1..n -> node, nodes numbered in source order; a    *)
(* node's parent is 0 (the module) or an earlier compound node.  Every     *)
(* decorator and every definition / statement header takes one line.       *)

Name(id) == [node |-> "Name", id |-> id]
Attribute(value, attr) == [node |-> "Attribute", value |-> value, attr |-> attr]

FunctionDef(name, args, decorator_list, docstring) ==
    [kind |-> "FunctionDef", name |-> name, args |-> args,
     decorator_list |-> decorator_list, docstring |-> docstring]

AsyncFunctionDef(name, args, docstring) ==
    [kind |-> "AsyncFunctionDef", name |-> name, args |-> args,
     decorator_list |-> <<>>, docstring |-> docstring]

\* args holds a FunctionDef's parameter names and a ClassDef's base expressions
ClassDef(name, bases, docstring) ==
    [kind |-> "ClassDef", name |-> name, args |-> bases,
     decorator_list |-> <<>>, docstring |-> docstring]

Assign(target) ==
    [kind |-> "Assign", name |-> target, args |-> <<>>,
     decorator_list |-> <<>>, docstring |-> None]

At(stmt, parent) ==
    [kind |-> stmt.kind, name |-> stmt.name, args |-> stmt.args,
     decorator_list |-> stmt.decorator_list, docstring |-> stmt.docstring,
     parent |-> parent]

Compound == {"FunctionDef", "AsyncFunctionDef", "ClassDef"}

RECURSIVE IsAncestor(_, _, _)
IsAncestor(tree, a, i) ==
    IF i = 0 THEN FALSE
    ELSE tree[i].parent = a \/ IsAncestor(tree, a, tree[i].parent)

\* nodes are numbered in source order: a node opens under the module, under
\* the node just before it, or under one of that node's ancestors
WellFormed(tree) ==
    \A i \in DOMAIN tree :
        LET p == tree[i].parent
        IN  /\ p < i
            /\ p # 0 => tree[p].kind \in Compound
            /\ p # 0 => (p = i - 1 \/ IsAncestor(tree, p, i - 1))

Trees(stmts, n) ==
    UNION {{t \in [1..k -> {At(s, p) : s \in stmts, p \in 0..(k - 1)}] : WellFormed(t)}
           : k \in 0..n}

\* node.body restricted to definitions and statements, in source order
RECURSIVE ChildrenFrom(_, _, _)
ChildrenFrom(tree, p, i) ==
    IF i > Len(tree) THEN <<>>
    ELSE (IF tree[i].parent = p THEN <<i>> ELSE <<>>) \o ChildrenFrom(tree, p, i + 1)

body(tree, p) == ChildrenFrom(tree, p, 1)

RECURSIVE DecoratorsUpTo(_, _)
DecoratorsUpTo(tree, i) ==
    IF i = 0 THEN 0 ELSE Len(tree[i].decorator_list) + DecoratorsUpTo(tree, i - 1)

\* the line of the `def` / `class` / statement header of node i
lineno(tree, i) == i + DecoratorsUpTo(tree, i)

\* the last line of node i: that of its last descendant
end_lineno(tree, i) ==
    lineno(tree, Max({i} \cup {j \in DOMAIN tree : IsAncestor(tree, i, j)}))

RECURSIVE SourceLines(_, _)
SourceLines(tree, i) ==
    IF i > Len(tree) THEN <<>>
    ELSE [d \in 1..Len(tree[i].decorator_list) |-> <<"@", tree[i].decorator_list[d]>>]
         \o << <<tree[i].kind, tree[i].name>> >>
         \o SourceLines(tree, i + 1)

\* A file of the repository: path below the repository root, what reading it
\* gives, and (for a file that parses) its syntax tree.  end_mode says how the
\* interpreter's ast exposes end_lineno: "set", "absent" or "none".
OkFile(path, tree, end_mode) ==
    [path |-> path, status |-> "ok", content |-> SourceLines(tree, 1),
     tree |-> tree, end_mode |-> end_mode]

SyntaxErrorFile(path, content) ==
    [path |-> path, status |-> "syntax_error", content |-> content,
     tree |-> <<>>, end_mode |-> "set"]

UnreadableFile(path) ==
    [path |-> path, status |-> "unreadable", content |-> <<>>,
     tree |-> <<>>, end_mode |-> "set"]

\* ast.parse(content): the nodes as the ast module hands them to the extractor
ast_node(file, i) ==
    LET n == file.tree[i]
        base == [id |-> i, kind |-> n.kind, name |-> n.name, args |-> n.args,
                 decorator_list |-> n.decorator_list, docstring |-> n.docstring,
                 lineno |-> lineno(file.tree, i)]
    IN  IF file.end_mode = "absent" THEN base
        ELSE [id |-> i, kind |-> n.kind, name |-> n.name, args |-> n.args,
              decorator_list |-> n.decorator_list, docstring |-> n.docstring,
              lineno |-> lineno(file.tree, i),
              end_lineno |-> IF file.end_mode = "none" THEN NoLine
                             ELSE end_lineno(file.tree, i)]

\* ast.walk(tree): breadth-first from the module node (0)
RECURSIVE ast_walk(_, _)
ast_walk(tree, todo) ==
    IF todo = <<>> THEN <<>>
    ELSE (IF Head(todo) = 0 THEN <<>> ELSE <<Head(todo)>>)
         \o ast_walk(tree, Tail(todo) \o body(tree, Head(todo)))

-----------------------------------------------------------------------------
(* The structural code extractor: GitHubIngestion in github_ingestion.py *)

\* _get_line_numbers without its `if not end_line` fallback
_get_line_numbers_no_fallback(node) ==
    <<node.lineno, IF "end_lineno" \in DOMAIN node THEN node.end_lineno ELSE NoLine>>

_get_line_numbers(node) ==
    LET start_line == node.lineno
        end_line == IF "end_lineno" \in DOMAIN node THEN node.end_lineno ELSE start_line
    IN  IF end_line = NoLine THEN <<start_line, start_line>>
        ELSE <<start_line, end_line>>

Min2(a, b) == IF a < b THEN a ELSE b
Max2(a, b) == IF a > b THEN a ELSE b

\* "\n".join(lines[start_idx:end_idx]), kept as the sequence of lines
_extract_source_code(node, content) ==
    LET ln == _get_line_numbers(node)
        start_idx == Max2(0, ln[1] - 1)
        end_idx == Min2(Len(content), ln[2])
    IN  SubSeq(content, start_idx + 1, end_idx)

_extract_docstring(node) == IF Truthy(node.docstring) THEN node.docstring ELSE None

github_link(relative_path, start_line, end_line) ==
    <<relative_path, "#L", start_line, "-L", end_line>>

_extract_function(node, content, file_path, relative_path) ==
    LET ln == _get_line_numbers(node)
        docstring == _extract_docstring(node)
    IN  [page_content |->
            [title |-> <<"Function", node.name>>,
             signature |-> <<"def", node.name, node.args>>,
             docstring |-> docstring,
             source_code |-> _extract_source_code(node, content)],
         metadata |->
            [source |-> file_path,
             relative_path |-> relative_path,
             source_type |-> "code",
             code_type |-> "function",
             function_name |-> node.name,
             start_line |-> ln[1],
             end_line |-> ln[2],
             has_docstring |-> docstring # None,
             github_link |-> github_link(relative_path, ln[1], ln[2])]]

\* the `bases` loop: base.value.id raises AttributeError when base.value is
\* itself an attribute access (class A(pkg.mod.Base))
BaseRaises(base) == base.node = "Attribute" /\ base.value.node # "Name"

BaseName(base) ==
    IF base.node = "Name" THEN <<base.id>> ELSE <<base.value.id, ".", base.attr>>

\* the names of every function below the class, nested ones included
NamesBelow(file, ids, kinds) ==
    LET top == IF ids = <<>> THEN 0 ELSE file.tree[ids[1]].parent
        keep == SelectSeq([i \in 1..Len(file.tree) |-> i],
                          LAMBDA i : /\ IsAncestor(file.tree, top, i)
                                     /\ file.tree[i].kind \in kinds)
    IN  [k \in 1..Len(keep) |-> file.tree[keep[k]].name]

NamesOfKind(file, ids, kinds) ==
    LET keep == SelectSeq(ids, LAMBDA i : file.tree[i].kind \in kinds)
    IN  [k \in 1..Len(keep) |-> file.tree[keep[k]].name]

\* [error |-> TRUE] when the extraction raises, the document otherwise
_extract_class(file, node, content, file_path, relative_path) ==
    LET ln == _get_line_numbers(node)
        docstring == _extract_docstring(node)
        items == body(file.tree, node.id)
        class_attrs == NamesOfKind(file, items, {"Assign"})
        methods == NamesOfKind(file, items, {"FunctionDef"})
    IN  IF \E b \in 1..Len(node.args) : BaseRaises(node.args[b])
        THEN [error |-> TRUE]
        ELSE [error |-> FALSE,
              page_content |->
                [title |-> <<"Class", node.name>>,
                 bases |-> [b \in 1..Len(node.args) |-> BaseName(node.args[b])],
                 docstring |-> docstring,
                 class_attrs |-> class_attrs,
                 methods |-> methods,
                 source_code |-> _extract_source_code(node, content)],
              metadata |->
                [source |-> file_path,
                 relative_path |-> relative_path,
                 source_type |-> "code",
                 code_type |-> "class",
                 class_name |-> node.name,
                 start_line |-> ln[1],
                 end_line |-> ln[2],
                 has_docstring |-> docstring # None,
                 methods |-> methods,
                 github_link |-> github_link(relative_path, ln[1], ln[2])]]

\* the `for decorator in node.decorator_list` loop: a later match overwrites
RECURSIVE DecoratorLoop(_, _)
DecoratorLoop(decorator_list, method_type) ==
    IF decorator_list = <<>> THEN method_type
    ELSE LET decorator == Head(decorator_list)
             next == IF decorator.node # "Name" THEN method_type
                     ELSE IF decorator.id = "staticmethod" THEN "static_method"
                     ELSE IF decorator.id = "classmethod" THEN "class_method"
                     ELSE IF decorator.id = "property" THEN "property"
                     ELSE method_type
         IN  DecoratorLoop(Tail(decorator_list), next)

\* the classification without its `elif args[0] == "cls"` branch
method_type_without_cls(args, decorator_list) ==
    IF args # <<>> /\ args[1] = "self" THEN "instance_method"
    ELSE IF decorator_list # <<>> THEN DecoratorLoop(decorator_list, "instance_method")
    ELSE "instance_method"

method_type(args, decorator_list) ==
    IF args # <<>> /\ args[1] = "self" THEN "instance_method"
    ELSE IF args # <<>> /\ args[1] = "cls" THEN "class_method"
    ELSE IF decorator_list # <<>> THEN DecoratorLoop(decorator_list, "instance_method")
    ELSE "instance_method"

_extract_method(node, class_name, content, file_path, relative_path) ==
    LET ln == _get_line_numbers(node)
        docstring == _extract_docstring(node)
        mtype == method_type(node.args, node.decorator_list)
    IN  [page_content |->
            [title |-> <<"Method", class_name, node.name>>,
             type |-> mtype,
             signature |-> <<"def", node.name, node.args>>,
             docstring |-> docstring,
             source_code |-> _extract_source_code(node, content)],
         metadata |->
            [source |-> file_path,
             relative_path |-> relative_path,
             source_type |-> "code",
             code_type |-> "method",
             method_name |-> node.name,
             class_name |-> class_name,
             method_type |-> mtype,
             start_line |-> ln[1],
             end_line |-> ln[2],
             has_docstring |-> docstring # None,
             github_link |-> github_link(relative_path, ln[1], ln[2])]]

\* one iteration of `for node in ast.walk(tree)`: the documents it appends
visit(file, id, content, file_path, relative_path) ==
    LET node == ast_node(file, id)
    IN  IF node.kind = "FunctionDef"
        THEN [error |-> FALSE,
              documents |-> <<_extract_function(node, content, file_path, relative_path)>>]
        ELSE IF node.kind = "ClassDef"
        THEN LET c == _extract_class(file, node, content, file_path, relative_path)
                 items == SelectSeq(body(file.tree, id),
                                    LAMBDA i : file.tree[i].kind = "FunctionDef")
             IN  IF c.error THEN [error |-> TRUE, documents |-> <<>>]
                 ELSE [error |-> FALSE,
                       documents |->
                          <<[page_content |-> c.page_content, metadata |-> c.metadata]>>
                          \o [k \in 1..Len(items) |->
                                _extract_method(ast_node(file, items[k]), node.name,
                                                content, file_path, relative_path)]]
        ELSE [error |-> FALSE, documents |-> <<>>]

\* the walk loop; an exception leaves the documents appended before it
RECURSIVE walk_loop(_, _, _, _, _)
walk_loop(file, order, content, file_path, relative_path) ==
    IF order = <<>> THEN <<>>
    ELSE LET v == visit(file, Head(order), content, file_path, relative_path)
         IN  IF v.error THEN <<>>
             ELSE v.documents
                  \o walk_loop(file, Tail(order), content, file_path, relative_path)

fallback_document(file, file_path, relative_path) ==
    [page_content |-> file.content,
     metadata |->
        [source |-> file_path,
         relative_path |-> relative_path,
         source_type |-> "code",
         code_type |-> "python_file",
         parsing_error |-> <<"invalid syntax">>]]

\* parse_python_file without the outer `except Exception`: a read error
\* leaves the function
parse_python_file_unguarded(file_path, file) ==
    LET relative_path == relpath(file_path, dirname(dirname(file_path)))
    IN  IF file.status = "unreadable"
        THEN [raised |-> TRUE, documents |-> <<>>]
        ELSE IF file.status = "syntax_error"
        THEN [raised |-> FALSE,
              documents |-> <<fallback_document(file, file_path, relative_path)>>]
        ELSE [raised |-> FALSE,
              documents |-> walk_loop(file, ast_walk(file.tree, <<0>>), file.content,
                                      file_path, relative_path)]

\* parse_python_file(file_path), `file` being what is at file_path on disk.
\* raised: whether an exception leaves the function (the outer
\* `except Exception` absorbs read errors and extraction errors alike).
parse_python_file(file_path, file) ==
    LET repo_dir == dirname(dirname(file_path))
        relative_path == relpath(file_path, repo_dir)
    IN  IF file.status = "unreadable"
        THEN [raised |-> FALSE, documents |-> <<>>]
        ELSE IF file.status = "syntax_error"
        THEN [raised |-> FALSE,
              documents |-> <<fallback_document(file, file_path, relative_path)>>]
        ELSE [raised |-> FALSE,
              documents |-> walk_loop(file, ast_walk(file.tree, <<0>>), file.content,
                                      file_path, relative_path)]

-----------------------------------------------------------------------------
(* process_repository(repo_url, branch), one step per call it makes and one *)
(* per iteration of its loop over the files.                                *)

\* what open() finds at an absolute path of the clone directory; a path that
\* is no longer there cannot be read
FileAt(path) ==
    IF \E f \in Range(workdir) : clone_dir(repo.url) \o f.path = path
    THEN CHOOSE f \in Range(workdir) : clone_dir(repo.url) \o f.path = path
    ELSE UnreadableFile(SubSeq(path, Len(clone_dir(repo.url)) + 1, Len(path)))

\* file.endswith(".py")
IsPythonFile(path) == LET file == basename(path) IN file[Len(file)] = ".py"

\* os.walk(repo_dir), keeping the files that end in ".py"
find_python_files(repo_dir) ==
    LET keep == SelectSeq(workdir, LAMBDA f : IsPythonFile(f.path))
    IN  [k \in 1..Len(keep) |-> repo_dir \o keep[k].path]

\* the loop that adds repo_url, branch and repo_name to every document
WithRepoMetadata(documents, repo_url, branch) ==
    [k \in 1..Len(documents) |->
        [page_content |-> documents[k].page_content,
         metadata |->
            [repo_url |-> repo_url, branch |-> branch,
             repo_name |-> repo_name(repo_url)] @@ documents[k].metadata]]

\* git clone succeeds: the branch's files are in the clone directory
CloneRepository ==
    /\ pc = "start"
    /\ workdir' = repo.files
    /\ pc' = "cloned"
    /\ UNCHANGED <<repo, python_files, cursor, all_documents, error, queryVars, pipeVars, apiVars>>

\* git clone exits non-zero: clone_repository raises, process_repository re-raises
CloneFails ==
    /\ pc = "start"
    /\ pc' = "raised"
    /\ error' = "clone"
    /\ UNCHANGED <<repo, workdir, python_files, cursor, all_documents, queryVars, pipeVars, apiVars>>

FindPythonFiles ==
    /\ pc = "cloned"
    /\ python_files' = find_python_files(clone_dir(repo.url))
    /\ cursor' = 1
    /\ pc' = "parsing"
    /\ UNCHANGED <<repo, workdir, all_documents, error, queryVars, pipeVars, apiVars>>

\* one iteration of `for file_path in python_files`
ParseNextFile ==
    /\ pc = "parsing"
    /\ cursor <= Len(python_files)
    /\ LET file_path == python_files[cursor]
           r == parse_python_file(file_path, FileAt(file_path))
       IN  IF r.raised
           THEN /\ pc' = "raised"
                /\ error' = "parse"
                /\ UNCHANGED <<cursor, all_documents>>
           ELSE /\ all_documents' = all_documents \o r.documents
                /\ cursor' = cursor + 1
                /\ UNCHANGED <<pc, error>>
    /\ UNCHANGED <<repo, workdir, python_files, queryVars, pipeVars, apiVars>>

ReturnDocuments ==
    /\ pc = "parsing"
    /\ cursor > Len(python_files)
    /\ all_documents' = WithRepoMetadata(all_documents, repo.url, repo.branch)
    /\ pc' = "returned"
    /\ UNCHANGED <<repo, workdir, python_files, cursor, error, queryVars, pipeVars, apiVars>>

NextRepo ==
    \/ CloneRepository
    \/ CloneFails
    \/ FindPythonFiles
    \/ ParseNextFile
    \/ ReturnDocuments

-----------------------------------------------------------------------------
(* Inputs *)

RepoUrl == <<"https:", "/", "/", "github.com", "/", "langchain-ai", "/", "langchain", ".git">>

Doc == <<"doc">>

\* statements the structural runs build trees from
ExtractStmts ==
    {FunctionDef("a", <<"self">>, <<>>, Doc),
     FunctionDef("b", <<>>, <<Name("staticmethod")>>, None),
     AsyncFunctionDef("c", <<>>, None),
     ClassDef("C", <<>>, Doc),
     ClassDef("D", <<Name("C"), Attribute(Name("pkg"), "Base")>>, None),
     ClassDef("E", <<Attribute(Attribute(Name("pkg"), "mod"), "Base")>>, None),
     Assign("x")}

BrokenSource == << <<"def", "f", "(", ":">> >>

ModPath == << <<"pkg">>, <<"mod", ".py">> >>

ExtractFiles ==
    {OkFile(ModPath, t, m) : t \in Trees(ExtractStmts, MaxNodes),
                             m \in {"set", "absent", "none"}}
    \cup {SyntaxErrorFile(ModPath, BrokenSource), UnreadableFile(ModPath)}

\* a class with one method, over every parameter list and decorator list
ArgNames == {"self", "cls", "x"}

Decorators ==
    {Name("staticmethod"), Name("classmethod"), Name("property"), Name("wraps"),
     Attribute(Name("x"), "setter")}

MethodFiles ==
    {OkFile(ModPath,
            <<At(ClassDef("K", <<>>, None), 0), At(FunctionDef("m", a, d, None), 1)>>,
            "set")
        : a \in SeqsUpTo(ArgNames, MaxArgs), d \in SeqsUpTo(Decorators, MaxDecorators)}

\* files of a batch, at depth 0, 1 and 2 below the repository root
SampleTrees ==
    {<<At(FunctionDef("f", <<"x">>, <<>>, Doc), 0)>>,
     <<At(ClassDef("K", <<>>, None), 0), At(FunctionDef("m", <<"self">>, <<>>, None), 1),
       At(FunctionDef("g", <<>>, <<>>, None), 0)>>}

BatchPaths ==
    {<< <<"a", ".py">> >>,
     << <<"pkg">>, <<"b", ".py">> >>,
     << <<"pkg">>, <<"sub">>, <<"c", ".py">> >>}

BatchFiles ==
    {OkFile(p, t, "set") : p \in BatchPaths, t \in SampleTrees}
    \cup {SyntaxErrorFile(p, BrokenSource) : p \in BatchPaths}
    \cup {UnreadableFile(p) : p \in BatchPaths}
    \cup {UnreadableFile(<< <<"README", ".md">> >>)}

DistinctPaths(files) ==
    \A i, j \in 1..Len(files) : i # j => files[i].path # files[j].path

Batches == {fs \in SeqsUpTo(BatchFiles, MaxFiles) : DistinctPaths(fs)}

\* no second repository call
NoJob ==
    [pc |-> "absent", url |-> <<>>, branch |-> "main", files |-> <<>>,
     project_id |-> None, documents |-> <<>>, result |-> 0]

NoCall == [status |-> "none"]

\* no HTTP request received: nothing stored, saved or scheduled
NoHandler == [route |-> "none", files |-> <<>>, status |-> 0, body |-> "none"]

ApiIdle ==
    /\ db = {}
    /\ disk = {}
    /\ tasks = <<>>
    /\ handler = NoHandler

\* a pipeline that is initialised, with no ingestion in progress besides the
\* call the other variables describe
PipelineIdle ==
    /\ exists = TRUE
    /\ inits = <<>>
    /\ uuid = Cardinality(collection)
    /\ project = None
    /\ result = 0
    /\ other = NoJob
    /\ otherdir = <<>>
    /\ uploads = {}
    /\ doc_call = NoCall
    /\ ApiIdle

NoRequest == [route |-> "none"]
NoResponse == [status |-> "none"]

InitJob(files) ==
    /\ repo = [url |-> RepoUrl, branch |-> "main", files |-> files]
    /\ workdir = <<>>
    /\ pc = "start"
    /\ python_files = <<>>
    /\ cursor = 1
    /\ all_documents = <<>>
    /\ error = "none"
    /\ collection = {}
    /\ request = NoRequest
    /\ response = NoResponse
    /\ calls = <<>>
    /\ PipelineIdle

\* a batch of files
Init == \E files \in Batches : InitJob(files)

\* one file, every tree shape
InitExtract == \E f \in ExtractFiles : InitJob(<<f>>)

\* one class with one method, every parameter and decorator list
InitMethod == \E f \in MethodFiles : InitJob(<<f>>)

Spec == Init /\ [][NextRepo]_vars
SpecExtract == InitExtract /\ [][NextRepo]_vars
SpecMethod == InitMethod /\ [][NextRepo]_vars

-----------------------------------------------------------------------------
(* RAGPipeline.process_github_repo: process_repository, then the indexing of *)
(* its documents in the Chroma collection.                                   *)

\* ids numbered from 1 in every call
new_ids_per_call(drawn, n) == [k \in 1..n |-> k]

\* ids = [str(uuid.uuid4()) for _ in documents], uuid4 values being fresh:
\* the n values that follow the `drawn` values drawn so far
new_ids(drawn, n) == [k \in 1..n |-> drawn + k]

\* the project id set on the first document only
with_project_id_on_first(documents, pid) ==
    [k \in 1..Len(documents) |->
        [page_content |-> documents[k].page_content,
         metadata |-> IF k = 1 THEN [project_id |-> pid] @@ documents[k].metadata
                      ELSE documents[k].metadata]]

\* doc.metadata["project_id"] = project_id, for every document
with_project_id(documents, pid) ==
    [k \in 1..Len(documents) |->
        [page_content |-> documents[k].page_content,
         metadata |-> [project_id |-> pid] @@ documents[k].metadata]]

\* an indexing that empties the collection first
add_documents_after_reset(chunks, documents, ids) ==
    {[id |-> ids[k], page_content |-> documents[k].page_content,
      metadata |-> documents[k].metadata] : k \in 1..Len(documents)}

\* vector_store.add_documents(documents, ids=ids): Chroma upserts by id
add_documents(chunks, documents, ids) ==
    {c \in chunks : \A k \in 1..Len(ids) : c.id # ids[k]}
    \cup {[id |-> ids[k], page_content |-> documents[k].page_content,
           metadata |-> documents[k].metadata] : k \in 1..Len(documents)}

\* project_id = project_id or str(uuid.uuid4())
ProjectIdOr(pid, drawn) == IF Truthy(pid) THEN pid ELSE <<"uuid", drawn + 1>>
DrawnFor(pid) == IF Truthy(pid) THEN 0 ELSE 1

\* an index failure that is logged and turned into a return of 0
RepoIndexFailsSilently ==
    /\ pc' = "done"
    /\ result' = 0
    /\ UNCHANGED <<collection, error>>

\* `except Exception: ... raise`: the failure of add_documents leaves the call
RepoIndexFails ==
    /\ pc' = "raised"
    /\ error' = "index"
    /\ UNCHANGED <<collection, result>>

\* process_github_repo after process_repository has returned
IndexRepository ==
    /\ pc = "returned"
    /\ LET pid == ProjectIdOr(project, uuid)
           first == uuid + DrawnFor(project)
           documents == with_project_id(all_documents, pid)
           ids == new_ids(first, Len(documents))
       IN  IF documents = <<>>
           THEN /\ result' = 0
                /\ pc' = "done"
                /\ uuid' = first
                /\ UNCHANGED <<collection, error>>
           ELSE /\ uuid' = first + Len(documents)
                /\ \/ /\ collection' = add_documents(collection, documents, ids)
                      /\ result' = Len(documents)
                      /\ pc' = "done"
                      /\ UNCHANGED error
                   \/ RepoIndexFails
    /\ UNCHANGED <<repo, workdir, python_files, cursor, all_documents,
                   request, response, calls,
                   exists, inits, project, other, otherdir, uploads, doc_call, apiVars>>

NextIngest ==
    \/ NextRepo
    \/ IndexRepository

\* a repository named my.github.io, with and without the .git suffix, and a
\* URL without the suffix
PagesUrl == <<"https:", "/", "/", "github.com", "/", "my", "/", "my", ".git", "hub.io">>
PagesGitUrl == <<"https:", "/", "/", "github.com", "/", "my", "/", "my", ".git", "hub.io", ".git">>
BareUrl == <<"https:", "/", "/", "github.com", "/", "org", "/", "tool">>
IngestUrls == {RepoUrl, PagesUrl, PagesGitUrl, BareUrl}

InitIngest ==
    \E files \in Batches, pid \in {None, <<"p1">>},
       url \in IngestUrls, branch \in {"main", "dev"} :
        /\ repo = [url |-> url, branch |-> branch, files |-> files]
        /\ workdir = <<>>
        /\ pc = "start"
        /\ python_files = <<>>
        /\ cursor = 1
        /\ all_documents = <<>>
        /\ error = "none"
        /\ collection = {}
        /\ request = NoRequest
        /\ response = NoResponse
        /\ calls = <<>>
        /\ exists = TRUE
        /\ inits = <<>>
        /\ uuid = 0
        /\ project = pid
        /\ result = 0
        /\ other = NoJob
        /\ otherdir = <<>>
        /\ uploads = {}
        /\ doc_call = NoCall
        /\ ApiIdle

SpecIngest == InitIngest /\ [][NextIngest]_vars

-----------------------------------------------------------------------------
(* Retrieval and answer composer: RAGPipeline.query and the routes that call *)
(* it.  A dict is a function on its keys; a filter that is None or {} (both  *)
(* falsy) is the function with no key.                                       *)

NoFilter == [key \in {} |-> 0]

K == 3

NoQuestionAnswer == "Veuillez fournir une question."
FallbackAnswer == "Desole, une erreur est survenue lors de la generation de la reponse."
Generated == "result of the chain"

\* search_kwargs without the filter, as query() was before filters existed
search_kwargs_unfiltered(filter_metadata) == [k |-> K, filter |-> NoFilter]

\* search_kwargs = {"k": 3}, plus the filter when it is truthy
search_kwargs(filter_metadata) ==
    IF DOMAIN filter_metadata # {} THEN [k |-> K, filter |-> filter_metadata]
    ELSE [k |-> K, filter |-> NoFilter]

\* Chroma's `where`: equality on every key of the filter
Matches(metadata, filter) ==
    \A key \in DOMAIN filter : key \in DOMAIN metadata /\ metadata[key] = filter[key]

\* the chunks in the order of their distance to the question; a chunk's id
\* stands for its rank
RECURSIVE nearest_first(_)
nearest_first(chunks) ==
    IF chunks = {} THEN <<>>
    ELSE LET c == CHOOSE x \in chunks : \A y \in chunks : x.id <= y.id
         IN  <<c>> \o nearest_first(chunks \ {c})

\* the retriever: the kwargs.k nearest chunks among those the filter keeps
similarity_search(chunks, kwargs) ==
    LET kept == nearest_first({c \in chunks : Matches(c.metadata, kwargs.filter)})
    IN  SubSeq(kept, 1, Min2(kwargs.k, Len(kept)))

endswith_git(url) == Len(url) > 0 /\ url[Len(url)] = ".git"

\* "github.com" in repo_url
contains_github(url) == \E i \in 1..Len(url) : url[i] = "github.com"

Get(metadata, key, default) == IF key \in DOMAIN metadata THEN metadata[key] ELSE default

\* source_info with the repository URL taken as stored, ".git" included
source_info_unstripped(doc) ==
    LET m == doc.metadata
    IN  IF /\ Get(m, "source_type", None) = "code"
           /\ Truthy(Get(m, "github_link", None))
           /\ Truthy(Get(m, "repo_url", None))
           /\ contains_github(m.repo_url)
        THEN [content |-> doc.page_content, metadata |-> m,
              github_url |-> m.repo_url \o <<"/", "blob", "/", Get(m, "branch", "main"),
                                             "/", m.github_link>>]
        ELSE [content |-> doc.page_content, metadata |-> m]

\* one element of formatted_sources
source_info(doc) ==
    LET m == doc.metadata
        base == [content |-> doc.page_content, metadata |-> m]
    IN  IF /\ Get(m, "source_type", None) = "code"
           /\ Truthy(Get(m, "github_link", None))
           /\ Truthy(Get(m, "repo_url", None))
        THEN LET repo_url == IF endswith_git(m.repo_url)
                             THEN SubSeq(m.repo_url, 1, Len(m.repo_url) - 1)
                             ELSE m.repo_url
             IN  IF contains_github(repo_url)
                 THEN [content |-> doc.page_content, metadata |-> m,
                       github_url |-> repo_url \o <<"/", "blob", "/", Get(m, "branch", "main"),
                                                    "/", m.github_link>>]
                 ELSE base
        ELSE base

Retrieval(outcome) == [capability |-> "retrieval", outcome |-> outcome]
Generation(outcome) == [capability |-> "generation", outcome |-> outcome]

Answered(answer, source_documents, made) ==
    [raised |-> FALSE, answer |-> answer, source_documents |-> source_documents,
     calls |-> made]

\* query without its try / except: a backend error leaves the function
query_unguarded(query_text, filter_metadata, backend) ==
    IF query_text = <<>>
    THEN Answered(NoQuestionAnswer, <<>>, <<>>)
    ELSE IF backend = "retrieval_error"
    THEN [raised |-> TRUE, calls |-> <<Retrieval("error")>>]
    ELSE IF backend = "generation_error"
    THEN [raised |-> TRUE, calls |-> <<Retrieval("ok"), Generation("error")>>]
    ELSE LET source_docs == similarity_search(collection, search_kwargs(filter_metadata))
         IN  Answered(Generated, [i \in 1..Len(source_docs) |-> source_info(source_docs[i])],
                      <<Retrieval("ok"), Generation("ok")>>)

\* RAGPipeline.query(query_text, filter_metadata); backend says whether the
\* retriever or the language model fails during qa_chain.invoke
query(query_text, filter_metadata, backend) ==
    IF query_text = <<>>
    THEN Answered(NoQuestionAnswer, <<>>, <<>>)
    ELSE IF backend = "retrieval_error"
    THEN Answered(FallbackAnswer, <<>>, <<Retrieval("error")>>)
    ELSE IF backend = "generation_error"
    THEN Answered(FallbackAnswer, <<>>, <<Retrieval("ok"), Generation("error")>>)
    ELSE LET source_docs == similarity_search(collection, search_kwargs(filter_metadata))
         IN  Answered(Generated, [i \in 1..Len(source_docs) |-> source_info(source_docs[i])],
                      <<Retrieval("ok"), Generation("ok")>>)

Backends == {"ok", "retrieval_error", "generation_error"}

\* the filter query_github_code builds
github_filter(repo_url, project_id) ==
    (IF Truthy(project_id) THEN [project_id |-> project_id] ELSE NoFilter)
    @@ (IF Truthy(repo_url) THEN [repo_url |-> repo_url] ELSE NoFilter)
    @@ [source_type |-> "code"]

\* what a caller gets: the result of query; when query raises, the routes
\* answer HTTP 500 and a direct caller sees the exception
Respond(route, question, filter, r) ==
    /\ response.status = "none"
    /\ request' = [route |-> route, question |-> question, filter |-> filter]
    /\ calls' = r.calls
    /\ response' = IF r.raised
                   THEN [status |-> IF route = "direct" THEN "raised" ELSE "http500"]
                   ELSE [status |-> "returned", answer |-> r.answer,
                         source_documents |-> r.source_documents]
    /\ UNCHANGED <<collection, repoVars, pipeVars, apiVars>>

Chars == {" ", "q"}
Questions == SeqsUpTo(Chars, MaxQuestionLen)

OtherUrl == <<"https:", "/", "/", "gitlab.com", "/", "org", "/", "other">>

\* POST /ask
AskQuestion ==
    \E question \in Questions, backend \in Backends :
        Respond("ask", question, NoFilter, query(question, NoFilter, backend))

\* POST /github/query
QueryGithubCode ==
    \E question \in Questions, backend \in Backends,
       repo_url \in {None, RepoUrl}, project_id \in {None, <<"p1">>} :
        LET filter_metadata == github_filter(repo_url, project_id)
        IN  Respond("github", question, filter_metadata,
                    query(question, filter_metadata, backend))

DirectFilters == {NoFilter, [source_type |-> "document"], [document_id |-> <<"d1">>]}

\* pipeline.query(...) called directly, as the module's script and tests do
DirectQuery ==
    \E question \in Questions, backend \in Backends, filter_metadata \in DirectFilters :
        Respond("direct", question, filter_metadata,
                query(question, filter_metadata, backend))

\* the caller has its answer; the pipeline serves the next query
QueryServed ==
    /\ response.status # "none"
    /\ request' = NoRequest
    /\ response' = NoResponse
    /\ calls' = <<>>
    /\ UNCHANGED <<collection, repoVars, pipeVars, apiVars>>

NextQuery ==
    \/ AskQuestion
    \/ QueryGithubCode
    \/ DirectQuery
    \/ QueryServed

CodeMetadata(repo_url, project_id) ==
    [source_type |-> "code", code_type |-> "function",
     relative_path |-> ModPath, start_line |-> 1, end_line |-> 2,
     github_link |-> github_link(ModPath, 1, 2),
     repo_url |-> repo_url, branch |-> "main", repo_name |-> repo_name(repo_url),
     project_id |-> project_id]

DocumentMetadata(document_id) ==
    [source_type |-> "document", source |-> <<"notes", ".md">>,
     document_id |-> document_id, chunk_index |-> 0]

StoredMetadata ==
    {CodeMetadata(RepoUrl, <<"p1">>), CodeMetadata(RepoUrl, <<"p2">>),
     CodeMetadata(OtherUrl, <<"p1">>), DocumentMetadata(<<"d1">>)}

Collections ==
    UNION {{{[id |-> i, page_content |-> <<"text", i>>, metadata |-> m[i]] : i \in 1..n}
            : m \in [1..n -> StoredMetadata]} : n \in 0..MaxChunks}

InitQuery ==
    /\ repo = [url |-> RepoUrl, branch |-> "main", files |-> <<>>]
    /\ workdir = <<>>
    /\ pc = "idle"
    /\ python_files = <<>>
    /\ cursor = 1
    /\ all_documents = <<>>
    /\ error = "none"
    /\ collection \in Collections
    /\ request = NoRequest
    /\ response = NoResponse
    /\ calls = <<>>
    /\ PipelineIdle

SpecQuery == InitQuery /\ [][NextQuery]_vars

\* Stored chunks whose metadata exercise the link of a source reference
MaxSourceChunks == 2

DoubleGitUrl == <<"https:", "/", "/", "github.com", "/", "org", "/", "repo", ".git", ".git">>
PlainUrl == <<"https:", "/", "/", "github.com", "/", "org", "/", "repo">>
\* the domain name in the path of a URL on another host
ElsewhereUrl == <<"https:", "/", "/", "example.org", "/", "github.com", "/", "repo", ".git">>

\* metadata of stored code chunks of a repository, with and without a branch key
SourceMetadata(repo_url, branches) ==
    {[source_type |-> "code", code_type |-> "function", relative_path |-> ModPath,
      github_link |-> github_link(ModPath, 5, 9), repo_url |-> repo_url, branch |-> b]
        : b \in branches}
    \cup {[source_type |-> "code", code_type |-> "function", relative_path |-> ModPath,
           github_link |-> github_link(ModPath, 5, 9), repo_url |-> repo_url]}

LinkMetadata ==
    SourceMetadata(RepoUrl, {"main", "dev"})
    \cup SourceMetadata(DoubleGitUrl, {})
    \cup SourceMetadata(PlainUrl, {})
    \cup SourceMetadata(ElsewhereUrl, {})
    \cup SourceMetadata(OtherUrl, {})
    \cup {[source_type |-> "code", code_type |-> "python_file", relative_path |-> ModPath,
           repo_url |-> RepoUrl, branch |-> "main", parsing_error |-> <<"invalid syntax">>],
          DocumentMetadata(<<"d1">>)}

SourceCollections ==
    UNION {{{[id |-> i, page_content |-> <<"text", i>>, metadata |-> m[i]] : i \in 1..n}
            : m \in [1..n -> LinkMetadata]} : n \in 0..MaxSourceChunks}

InitSources ==
    /\ repo = [url |-> RepoUrl, branch |-> "main", files |-> <<>>]
    /\ workdir = <<>>
    /\ pc = "idle"
    /\ python_files = <<>>
    /\ cursor = 1
    /\ all_documents = <<>>
    /\ error = "none"
    /\ collection \in SourceCollections
    /\ request = NoRequest
    /\ response = NoResponse
    /\ calls = <<>>
    /\ PipelineIdle

SpecSources == InitSources /\ [][NextQuery]_vars

-----------------------------------------------------------------------------
(* RAGPipeline.process_document.  A file path is a string: a sequence of     *)
(* tokens in which "/" and the extension are tokens of their own.  An upload *)
(* is the arguments of one call together with what is on disk at the path:   *)
(* content holds, per page of the file, the number of chunks the splitter    *)
(* cuts that page into.                                                      *)

MaxPages == 2        \* pages per uploaded file
MaxPageChunks == 2   \* chunks the splitter makes of one page

Extensions == {".pdf", ".PDF", ".md", ".txt", ".docx", ".csv"}

\* os.path.basename
path_basename(file_path) == LastSegment(file_path)

\* os.path.splitext(file_path)[1]
splitext(file_path) ==
    IF file_path # <<>> /\ file_path[Len(file_path)] \in Extensions
    THEN file_path[Len(file_path)] ELSE ""

lower(ext) == IF ext = ".PDF" THEN ".pdf" ELSE ext

\* a loader choice that reads every other file as text
_get_loader_text_default(file_path) ==
    LET ext == lower(splitext(file_path))
    IN  IF ext = ".pdf" THEN "PyPDFLoader"
        ELSE IF ext = ".docx" THEN "Docx2txtLoader"
        ELSE "TextLoader"

_get_loader(file_path) ==
    LET ext == lower(splitext(file_path))
    IN  IF ext = ".pdf" THEN "PyPDFLoader"
        ELSE IF ext = ".md" \/ ext = ".txt" THEN "TextLoader"
        ELSE IF ext = ".docx" THEN "Docx2txtLoader"
        ELSE "None"

\* chunk_size - chunk_overlap: the distance between the starts of two chunks
Stride == 800

\* the chunks of page p: the loader's metadata of the page (source, and page
\* for a PDF) plus the splitter's start_index
page_texts(loader, file_path, p, n) ==
    [k \in 1..n |->
        [page_content |-> <<"text", p, k>>,
         metadata |->
            IF loader = "PyPDFLoader"
            THEN [source |-> file_path, page |-> p - 1, start_index |-> (k - 1) * Stride]
            ELSE [source |-> file_path, start_index |-> (k - 1) * Stride]]]

\* text_splitter.split_documents(loader.load())
RECURSIVE split_documents(_, _, _, _)
split_documents(loader, file_path, content, p) ==
    IF p > Len(content) THEN <<>>
    ELSE page_texts(loader, file_path, p, content[p])
         \o split_documents(loader, file_path, content, p + 1)

\* the metadata of chunk i with the caller's and the document's fields merged
\* last, over what the loader provides
chunk_metadata_base_last(base_metadata, text_metadata, i) ==
    [chunk_index |-> i] @@ base_metadata @@ text_metadata

\* base_metadata.copy(), .update(text.metadata), ["chunk_index"] = i
chunk_metadata(base_metadata, text_metadata, i) ==
    [chunk_index |-> i] @@ text_metadata @@ base_metadata

\* process_document(file_path, document_id, metadata) with `drawn` uuid4
\* values drawn before it; the call always returns None.  end: the return
\* it left by; documents, ids: what it handed to add_documents.
process_document(u, drawn) ==
    LET doc_id == ProjectIdOr(u.document_id, drawn)
        first == drawn + DrawnFor(u.document_id)
        base_metadata == [document_id |-> doc_id,
                          source |-> path_basename(u.file_path),
                          source_type |-> "document"] @@ u.metadata
        loader == _get_loader(u.file_path)
        texts == split_documents(loader, u.file_path, u.content, 1)
        nothing == [drawn |-> first, doc_id |-> doc_id, documents |-> <<>>, ids |-> <<>>]
    IN  IF ~u.on_disk
        THEN [end |-> "no_file", drawn |-> drawn, doc_id |-> u.document_id,
              documents |-> <<>>, ids |-> <<>>]
        ELSE IF loader = "None" THEN [end |-> "no_loader"] @@ nothing
        ELSE IF u.content = <<>> THEN [end |-> "no_content"] @@ nothing
        ELSE IF texts = <<>> THEN [end |-> "no_text"] @@ nothing
        ELSE [end |-> "add_documents",
              drawn |-> first + Len(texts),
              doc_id |-> doc_id,
              documents |->
                 [i \in 1..Len(texts) |->
                     [page_content |-> texts[i].page_content,
                      metadata |-> chunk_metadata(base_metadata, texts[i].metadata, i - 1)]],
              ids |-> new_ids(first, Len(texts))]

\* a queued process_document task runs; a failure of add_documents is logged
\* by the `except Exception` and the call returns
ProcessDocument ==
    \E u \in uploads :
       LET r == process_document(u, uuid)
       IN  /\ uploads' = uploads \ {u}
           /\ uuid' = r.drawn
           /\ \/ /\ collection' = add_documents(collection, r.documents, r.ids)
                 /\ doc_call' = [status |-> "returned", upload |-> u, end |-> r.end,
                                 doc_id |-> r.doc_id, ids |-> r.ids, backend |-> "ok"]
              \/ /\ r.end = "add_documents"
                 /\ doc_call' = [status |-> "returned", upload |-> u, end |-> r.end,
                                 doc_id |-> r.doc_id, ids |-> r.ids, backend |-> "error"]
                 /\ UNCHANGED collection
           /\ UNCHANGED <<repoVars, request, response, calls,
                          exists, inits, project, result, other, otherdir, apiVars>>

NextDocument == ProcessDocument

Upload(file_path, on_disk, document_id, metadata, content) ==
    [file_path |-> file_path, on_disk |-> on_disk, document_id |-> document_id,
     metadata |-> metadata, content |-> content]

UploadDir == <<"/", "tmp", "/", "docai_uploads", "/">>

\* a PDF has any number of pages; the other loaders make one document of a file
UploadFiles ==
    {<<UploadDir \o <<"report", e>>, c>> :
        e \in {".pdf", ".PDF"}, c \in SeqsUpTo(0..MaxPageChunks, MaxPages)}
    \cup {<<UploadDir \o <<"notes", e>>, <<n>>>> :
            e \in {".md", ".txt", ".docx", ".csv"}, n \in 0..MaxPageChunks}
    \cup {<<UploadDir \o <<"LICENSE">>, <<1>>>>}

\* metadata=None, the dict of the upload handler, and a dict that uses the
\* names process_document sets itself
CallerMetadata ==
    {NoFilter,
     [document_type |-> "pdf"],
     [source |-> <<"x">>, document_id |-> <<"x">>, source_type |-> "code",
      chunk_index |-> 7]}

Uploads ==
    {Upload(f[1], d, id, m, f[2]) :
        f \in UploadFiles, d \in BOOLEAN, id \in {None, <<"d1">>}, m \in CallerMetadata}

InitDocument ==
    \E u \in Uploads :
        /\ repo = [url |-> RepoUrl, branch |-> "main", files |-> <<>>]
        /\ workdir = <<>>
        /\ pc = "idle"
        /\ python_files = <<>>
        /\ cursor = 1
        /\ all_documents = <<>>
        /\ error = "none"
        /\ collection = {}
        /\ request = NoRequest
        /\ response = NoResponse
        /\ calls = <<>>
        /\ exists = TRUE
        /\ inits = <<>>
        /\ uuid = 0
        /\ project = None
        /\ result = 0
        /\ other = NoJob
        /\ otherdir = <<>>
        /\ uploads = {u}
        /\ doc_call = NoCall
        /\ ApiIdle

SpecDocument == InitDocument /\ [][NextDocument]_vars

-----------------------------------------------------------------------------
(* Two process_github_repo calls on one pipeline.  Both clone below the one *)
(* temp_dir of the pipeline's GitHubIngestion; the second call is followed  *)
(* through clone_repository step by step, then through the rest in one step.*)

\* process_repository over a clone directory that holds `files` all along
RECURSIVE parse_all(_, _)
parse_all(repo_dir, files) ==
    IF files = <<>> THEN <<>>
    ELSE (IF IsPythonFile(Head(files).path)
          THEN parse_python_file(repo_dir \o Head(files).path, Head(files)).documents
          ELSE <<>>)
         \o parse_all(repo_dir, Tail(files))

process_repository(files, repo_url, branch) ==
    WithRepoMetadata(parse_all(clone_dir(repo_url), files), repo_url, branch)

SameCloneDir == clone_dir(other.url) = clone_dir(repo.url)

\* the second call's clone directory: absent when <<>>
OtherDir == IF SameCloneDir THEN workdir ELSE otherdir

WriteOtherDir(files) ==
    IF SameCloneDir
    THEN workdir' = files /\ UNCHANGED otherdir
    ELSE otherdir' = files /\ UNCHANGED workdir

\* if os.path.exists(clone_dir): shutil.rmtree(clone_dir)
OtherRemovesCloneDir ==
    /\ other.pc = "start"
    /\ WriteOtherDir(<<>>)
    /\ other' = [other EXCEPT !.pc = "cloning"]
    /\ UNCHANGED <<repo, pc, python_files, cursor, all_documents, error, queryVars,
                   exists, inits, uuid, project, result, uploads, doc_call, apiVars>>

\* git clone: refuses a directory that exists and is not empty
OtherClones ==
    /\ other.pc = "cloning"
    /\ IF OtherDir # <<>>
       THEN /\ other' = [other EXCEPT !.pc = "raised"]
            /\ UNCHANGED <<workdir, otherdir>>
       ELSE /\ other' = [other EXCEPT !.pc = "cloned"]
            /\ WriteOtherDir(other.files)
    /\ UNCHANGED <<repo, pc, python_files, cursor, all_documents, error, queryVars,
                   exists, inits, uuid, project, result, uploads, doc_call, apiVars>>

\* find_python_files, the parse loop and the indexing of the second call
OtherIndexes ==
    /\ other.pc = "cloned"
    /\ LET pid == ProjectIdOr(other.project_id, uuid)
           first == uuid + DrawnFor(other.project_id)
           found == process_repository(OtherDir, other.url, other.branch)
           documents == with_project_id(found, pid)
           ids == new_ids(first, Len(documents))
       IN  IF documents = <<>>
           THEN /\ other' = [other EXCEPT !.pc = "done", !.result = 0]
                /\ uuid' = first
                /\ UNCHANGED collection
           ELSE /\ uuid' = first + Len(documents)
                /\ \/ /\ collection' = add_documents(collection, documents, ids)
                      /\ other' = [other EXCEPT !.pc = "done", !.documents = found,
                                                !.result = Len(documents)]
                   \/ /\ other' = [other EXCEPT !.pc = "raised"]
                      /\ UNCHANGED collection
    /\ UNCHANGED <<repoVars, request, response, calls,
                   exists, inits, project, result, otherdir, uploads, doc_call, apiVars>>

NextJobs ==
    \/ NextIngest
    \/ OtherRemovesCloneDir
    \/ OtherClones
    \/ OtherIndexes

\* the same repository name under another owner
ForkUrl == <<"https:", "/", "/", "github.com", "/", "fork", "/", "langchain", ".git">>

OtherFiles == <<OkFile(<< <<"pkg">>, <<"d", ".py">> >>,
                       <<At(FunctionDef("h", <<>>, <<>>, None), 0)>>, "set")>>

\* the second call: the same repository on another branch, a repository of
\* the same name, a repository of another name
OtherJobs ==
    {[pc |-> "start", url |-> u, branch |-> b, files |-> OtherFiles,
      project_id |-> <<"p2">>, documents |-> <<>>, result |-> 0]
        : u \in {RepoUrl, ForkUrl, OtherUrl}, b \in {"dev"}}

InitJobs ==
    \E files \in Batches, o \in OtherJobs :
        /\ Len(files) > 0
        /\ repo = [url |-> RepoUrl, branch |-> "main", files |-> files]
        /\ workdir = <<>>
        /\ pc = "start"
        /\ python_files = <<>>
        /\ cursor = 1
        /\ all_documents = <<>>
        /\ error = "none"
        /\ collection = {}
        /\ request = NoRequest
        /\ response = NoResponse
        /\ calls = <<>>
        /\ exists = TRUE
        /\ inits = <<>>
        /\ uuid = 0
        /\ project = <<"p1">>
        /\ result = 0
        /\ other = o
        /\ otherdir = <<>>
        /\ uploads = {}
        /\ doc_call = NoCall
        /\ ApiIdle

SpecJobs == InitJobs /\ [][NextJobs]_vars

-----------------------------------------------------------------------------
(* RAGPipeline.__init__: the collection is looked up, and created when the *)
(* lookup raises.                                                           *)

MaxInits == 2        \* RAGPipeline() initialisations in progress at once

\* self.chroma_client.get_collection(COLLECTION_NAME)
GetCollection(i) ==
    /\ inits[i] = "get"
    /\ inits' = [inits EXCEPT ![i] = IF exists THEN "ready" ELSE "create"]
    /\ UNCHANGED <<repoVars, queryVars, exists, uuid, project, result, other,
                   otherdir, uploads, doc_call, apiVars>>

\* self.chroma_client.create_collection(COLLECTION_NAME): raises when the
\* collection exists, and __init__ re-raises
CreateCollection(i) ==
    /\ inits[i] = "create"
    /\ IF exists
       THEN inits' = [inits EXCEPT ![i] = "failed"] /\ UNCHANGED exists
       ELSE inits' = [inits EXCEPT ![i] = "ready"] /\ exists' = TRUE
    /\ UNCHANGED <<repoVars, queryVars, uuid, project, result, other,
                   otherdir, uploads, doc_call, apiVars>>

NextInit ==
    \/ \E i \in DOMAIN inits : GetCollection(i)
    \/ \E i \in DOMAIN inits : CreateCollection(i)

\* a store with or without the collection, and MaxInits initialisations
InitInit ==
    /\ repo = [url |-> RepoUrl, branch |-> "main", files |-> <<>>]
    /\ workdir = <<>>
    /\ pc = "idle"
    /\ python_files = <<>>
    /\ cursor = 1
    /\ all_documents = <<>>
    /\ error = "none"
    /\ exists \in BOOLEAN
    /\ collection \in IF exists THEN Collections ELSE {{}}
    /\ request = NoRequest
    /\ response = NoResponse
    /\ calls = <<>>
    /\ inits \in UNION {[1..n -> {"get"}] : n \in 1..MaxInits}
    /\ uuid = Cardinality(collection)
    /\ project = None
    /\ result = 0
    /\ other = NoJob
    /\ otherdir = <<>>
    /\ uploads = {}
    /\ doc_call = NoCall
    /\ ApiIdle

SpecInit == InitInit /\ [][NextInit]_vars

-----------------------------------------------------------------------------
(* The core as a whole: an initialisation, a repository ingestion, queued   *)
(* document ingestions and queries, on one store.  Ingestions and queries   *)
(* run on an initialised pipeline.                                          *)

PipelineReady == \E i \in DOMAIN inits : inits[i] = "ready"

NextCore ==
    \/ NextInit
    \/ PipelineReady /\ NextIngest
    \/ PipelineReady /\ NextDocument
    \/ PipelineReady /\ NextQuery

CorePath == UploadDir \o <<"report", ".pdf">>

\* the same file uploaded twice under one document id
CoreUploads ==
    {Upload(CorePath, TRUE, <<"d1">>, NoFilter, <<1, 1>>),
     Upload(CorePath, TRUE, <<"d1">>, [document_type |-> "pdf"], <<1, 1>>)}

CoreFiles ==
    {<<OkFile(<< <<"pkg">>, <<"b", ".py">> >>,
              <<At(FunctionDef("f", <<"x">>, <<>>, Doc), 0)>>, "set")>>,
     <<UnreadableFile(<< <<"README", ".md">> >>)>>}

InitCore ==
    \E files \in CoreFiles :
        /\ repo = [url |-> RepoUrl, branch |-> "main", files |-> files]
        /\ workdir = <<>>
        /\ pc = "start"
        /\ python_files = <<>>
        /\ cursor = 1
        /\ all_documents = <<>>
        /\ error = "none"
        /\ exists \in BOOLEAN
        /\ collection = IF exists THEN {[id |-> 1, page_content |-> <<"text", 1>>,
                                         metadata |-> DocumentMetadata(<<"d1">>)]}
                        ELSE {}
        /\ request = NoRequest
        /\ response = NoResponse
        /\ calls = <<>>
        /\ inits = <<"get">>
        /\ uuid = Cardinality(collection)
        /\ project = <<"p1">>
        /\ result = 0
        /\ other = NoJob
        /\ otherdir = <<>>
        /\ uploads = CoreUploads
        /\ doc_call = NoCall
        /\ ApiIdle

SpecCore == InitCore /\ [][NextCore]_vars

-----------------------------------------------------------------------------
(* The HTTP handlers that store a row and schedule an ingestion:             *)
(* upload_document of main.py and routes.py, ingest_github_code of routes.py,*)
(* ingest_github_repo and process_github_repo_background of github.py.  One  *)
(* request is followed; the pipeline is initialised.                         *)

MaxUploadFiles == 2   \* files of one upload request

AllowedExtensions == {".pdf", ".md", ".txt", ".docx"}

\* file.filename.lower().endswith(allowed_extensions)
allowed(filename) ==
    filename # <<>> /\ lower(filename[Len(filename)]) \in AllowedExtensions

\* conn.commit(): the rows inserted in the transaction are rows of the table
commit(rows, pending) == rows \cup pending

\* conn.rollback(): the rows inserted since the last commit are dropped
rollback(rows, pending) == rows

\* the rows the INSERT statements write
DocumentRow(file_id, filename) ==
    [table |-> "documents", id |-> file_id, filename |-> filename, processed |-> FALSE]

ProjectRow(project_id) ==
    [table |-> "projects", id |-> project_id, status |-> "queued"]

CodeProjectRow(project_id) ==
    [table |-> "code_projects", id |-> project_id, processed |-> FALSE,
     metadata |-> [description |-> None, user_id |-> None]]

\* project_id = str(uuid.uuid4()) of the ingest handlers
NewProjectId == <<"uuid", 0>>

\* the statements of upload_document's try block that can raise: open/write,
\* cursor.execute, conn.commit and, in routes.py, RAGPipeline()
UploadFailures(route) ==
    {"save", "insert", "commit"}
    \cup (IF route = "routes.upload" THEN {"pipeline"} ELSE {})

\* the `for file in files` loop from file i on; fail names the file whose try
\* block raises (0: none) and the statement that raises.  file_id is uuid4:
\* one fresh value per file.
RECURSIVE upload_loop(_, _, _, _, _)
upload_loop(route, files, i, fail, st) ==
    IF i > Len(files) THEN [st EXCEPT !.status = 200]
    ELSE LET file_id == i
             row == DocumentRow(file_id, files[i])
             task == [fn |-> "process_document", id |-> file_id]
         IN  IF route = "main.upload" /\ ~allowed(files[i])
             THEN [st EXCEPT !.status = 400]
             ELSE IF fail.at = i
             THEN \* except Exception: rollback, os.remove(file_path), 500
                  [db |-> IF fail.step = "pipeline"
                          THEN rollback(commit(st.db, {row}), {})
                          ELSE rollback(st.db, {row}),
                   disk |-> st.disk \ {file_id},
                   tasks |-> st.tasks,
                   status |-> 500]
             ELSE upload_loop(route, files, i + 1, fail,
                              [db |-> commit(st.db, {row}),
                               disk |-> st.disk \cup {file_id},
                               tasks |-> Append(st.tasks, task),
                               status |-> 0])

UploadNames == {<<"a", ".pdf">>, <<"b", ".PDF">>, <<"c", ".exe">>}

UploadBatches == SeqsUpTo(UploadNames, MaxUploadFiles) \ {<<>>}

\* upload_document, up to its response
UploadDocument(route) ==
    /\ handler = NoHandler
    /\ \E files \in UploadBatches, at \in 0..MaxUploadFiles,
          step \in UploadFailures(route) :
          LET r == upload_loop(route, files, 1, [at |-> at, step |-> step],
                               [db |-> db, disk |-> disk, tasks |-> tasks, status |-> 0])
          IN  /\ db' = r.db
              /\ disk' = r.disk
              /\ tasks' = r.tasks
              /\ handler' = [route |-> route, files |-> files, status |-> r.status,
                             body |-> IF r.status = 200 THEN "queued" ELSE "error"]
    /\ UNCHANGED <<repoVars, queryVars, pipeVars>>

MainUploadDocument == UploadDocument("main.upload")

RoutesUploadDocument == UploadDocument("routes.upload")

\* ingest_github_code of routes.py.  The argument of add_task is
\* RAGPipeline().ingest_github_repo: the constructor may raise, and RAGPipeline
\* has no attribute ingest_github_repo, so the statement after the commit
\* always raises.
IngestGithubCode ==
    /\ handler = NoHandler
    /\ \E step \in {"insert", "commit", "pipeline", "attribute"} :
          db' = IF step \in {"insert", "commit"}
                THEN rollback(db, {ProjectRow(NewProjectId)})
                ELSE rollback(commit(db, {ProjectRow(NewProjectId)}), {})
    /\ handler' = [route |-> "routes.ingest", files |-> <<>>, status |-> 500,
                   body |-> "error"]
    /\ UNCHANGED <<repoVars, queryVars, pipeVars, disk, tasks>>

\* ingest_github_repo of github.py, for the repository `repo`
IngestGithubRepo ==
    /\ handler = NoHandler
    /\ \E step \in {"none", "insert", "commit"} :
          IF step = "none"
          THEN /\ db' = commit(db, {CodeProjectRow(NewProjectId)})
               /\ tasks' = Append(tasks, [fn |-> "process_github_repo_background",
                                          id |-> NewProjectId])
               /\ handler' = [route |-> "github.ingest", files |-> <<>>,
                              status |-> 200, body |-> "processing"]
          ELSE /\ db' = rollback(db, {CodeProjectRow(NewProjectId)})
               /\ handler' = [route |-> "github.ingest", files |-> <<>>,
                              status |-> 500, body |-> "error"]
               /\ UNCHANGED tasks
    /\ UNCHANGED <<repoVars, queryVars, pipeVars, disk>>

\* jsonb_set(metadata, '{key}', value) of the two UPDATE statements, on the
\* row of project_id: with processed = TRUE when process_github_repo returned
update_project_always_processed(rows, project_id, returned, num_documents, err) ==
    {IF r.table = "code_projects" /\ r.id = project_id
     THEN [r EXCEPT !.processed = TRUE,
                    !.metadata = (IF returned THEN [num_documents |-> num_documents]
                                  ELSE [error |-> err]) @@ r.metadata]
     ELSE r : r \in rows}

update_project(rows, project_id, returned, num_documents, err) ==
    {IF r.table = "code_projects" /\ r.id = project_id
     THEN IF returned
          THEN [r EXCEPT !.processed = TRUE,
                         !.metadata = [num_documents |-> num_documents] @@ r.metadata]
          ELSE [r EXCEPT !.metadata = [error |-> err] @@ r.metadata]
     ELSE r : r \in rows}

\* the response is sent, then the scheduled process_github_repo_background
\* starts: rag_pipeline.process_github_repo(repo_url, branch, project_id)
RunBackgroundTask ==
    /\ handler.status = 200
    /\ tasks # <<>>
    /\ Head(tasks).fn = "process_github_repo_background"
    /\ pc = "idle"
    /\ pc' = "start"
    /\ project' = Head(tasks).id
    /\ tasks' = Tail(tasks)
    /\ UNCHANGED <<repo, workdir, python_files, cursor, all_documents, error,
                   queryVars, exists, inits, uuid, result, other, otherdir,
                   uploads, doc_call, db, disk, handler>>

\* process_github_repo has returned or raised: the UPDATE of the try block,
\* or of the except block, and its commit
FinishBackgroundTask ==
    /\ handler.route = "github.ingest"
    /\ pc \in {"done", "raised"}
    /\ db' = update_project(db, project, pc = "done", result, error)
    /\ pc' = "finished"
    /\ UNCHANGED <<repo, workdir, python_files, cursor, all_documents, error,
                   queryVars, pipeVars, disk, tasks, handler>>

NextApi ==
    \/ MainUploadDocument
    \/ RoutesUploadDocument
    \/ IngestGithubCode
    \/ IngestGithubRepo
    \/ RunBackgroundTask
    \/ NextIngest
    \/ FinishBackgroundTask

InitApi ==
    \E files \in Batches :
        /\ repo = [url |-> RepoUrl, branch |-> "main", files |-> files]
        /\ workdir = <<>>
        /\ pc = "idle"
        /\ python_files = <<>>
        /\ cursor = 1
        /\ all_documents = <<>>
        /\ error = "none"
        /\ collection = {}
        /\ request = NoRequest
        /\ response = NoResponse
        /\ calls = <<>>
        /\ PipelineIdle

SpecApi == InitApi /\ [][NextApi]_vars

-----------------------------------------------------------------------------
(* Properties of the extractor and of process_repository *)

AbsPath(f) == clone_dir(repo.url) \o f.path

DocsOf(f) == SelectSeq(all_documents, LAMBDA d : d.metadata.source = AbsPath(f))

CodeTypeIs(d, t) == d.metadata.code_type = t

KindCount(tree, kinds) == Cardinality({i \in DOMAIN tree : tree[i].kind \in kinds})

DirectMethods(tree) ==
    {i \in DOMAIN tree : /\ tree[i].kind = "FunctionDef"
                         /\ tree[i].parent # 0
                         /\ tree[tree[i].parent].kind = "ClassDef"}

InsideClass(tree, i) ==
    \E a \in DOMAIN tree : tree[a].kind = "ClassDef" /\ IsAncestor(tree, a, i)

HasRaisingBase(tree) ==
    \E i \in DOMAIN tree :
        tree[i].kind = "ClassDef" /\ \E b \in 1..Len(tree[i].args) : BaseRaises(tree[i].args[b])

\* the documents of code_type t made from node i of file f
ChunksFor(f, i, t) ==
    SelectSeq(DocsOf(f), LAMBDA d : /\ CodeTypeIs(d, t)
                                     /\ d.metadata.start_line = lineno(f.tree, i))

IsFallback(d, f) ==
    /\ "parsing_error" \in DOMAIN d.metadata
    /\ Truthy(d.metadata.parsing_error)
    /\ d.page_content = f.content

\* C1: process_repository never raises because of a file: once a file has
\* been through the loop, a file with a syntax error has contributed exactly
\* its fallback chunk, an unreadable file nothing, and every file that parses
\* all the chunks of its functions, classes and methods; the call returns
\* only after every Python file of the clone has been through the loop.
C1_BatchSurvivesFileFailures ==
    /\ error # "parse"
    /\ \A k \in 1..Len(python_files) :
          k < cursor =>
             LET f == FileAt(python_files[k])
                 docs == DocsOf(f)
             IN  /\ f.status = "syntax_error" => Len(docs) = 1 /\ IsFallback(docs[1], f)
                 /\ f.status = "unreadable" => docs = <<>>
                 /\ f.status = "ok" =>
                       Len(docs) = KindCount(f.tree, {"FunctionDef", "ClassDef"})
                                   + Cardinality(DirectMethods(f.tree))
    /\ pc = "returned" =>
          /\ cursor = Len(python_files) + 1
          /\ \A f \in Range(workdir) :
                IsPythonFile(f.path) => AbsPath(f) \in Range(python_files)

C1_Witness ==
    /\ pc = "returned"
    /\ Len(python_files) = 2
    /\ FileAt(python_files[1]).status \in {"syntax_error", "unreadable"}
    /\ FileAt(python_files[2]).status = "ok"
    /\ Len(DocsOf(FileAt(python_files[2]))) > 1

\* C2: a file with a syntax error yields exactly one chunk, of code_type
\* file_fallback, whose text is the file's content and whose parsing_error
\* is non-empty.
C2_SyntaxErrorFallbackChunk ==
    pc = "returned" =>
       \A f \in Range(workdir) :
          (f.status = "syntax_error" /\ IsPythonFile(f.path)) =>
             LET docs == DocsOf(f)
             IN  /\ Len(docs) = 1
                 /\ CodeTypeIs(docs[1], "file_fallback")
                 /\ IsFallback(docs[1], f)

\* C6: in a file that is extracted to its end, a function definition has
\* exactly one function chunk when it is not inside a class and none when it
\* is (a method, or a function nested in a method).
C6_FunctionChunkIffOutsideClass ==
    pc = "returned" =>
       \A f \in Range(workdir) :
          (f.status = "ok" /\ ~HasRaisingBase(f.tree)) =>
             \A i \in DOMAIN f.tree :
                f.tree[i].kind = "FunctionDef" =>
                   Len(ChunksFor(f, i, "function")) = IF InsideClass(f.tree, i) THEN 0 ELSE 1

IsKindDecorator(d) ==
    d.node = "Name" /\ d.id \in {"staticmethod", "classmethod", "property"}

HasDecorator(decorator_list, id) == Name(id) \in Range(decorator_list)

\* what the decorators say, in the order staticmethod, classmethod, property
DecoratorKind(decorator_list) ==
    IF HasDecorator(decorator_list, "staticmethod") THEN "static_method"
    ELSE IF HasDecorator(decorator_list, "classmethod") THEN "class_method"
    ELSE "property"

OkFiles == {f \in Range(workdir) : f.status = "ok" /\ ~HasRaisingBase(f.tree)}

\* C7: a method with a staticmethod, classmethod or property decorator is
\* classified by its decorators (in that order of precedence), whatever its
\* first parameter is called.
C7_DecoratorsTakePrecedence ==
    pc = "returned" =>
       \A f \in OkFiles : \A i \in DirectMethods(f.tree) :
          LET chunks == ChunksFor(f, i, "method")
              decorator_list == f.tree[i].decorator_list
          IN  /\ Len(chunks) = 1
              /\ (\E k \in 1..Len(decorator_list) : IsKindDecorator(decorator_list[k]))
                    => chunks[1].metadata.method_type = DecoratorKind(decorator_list)

\* C8: a method without a staticmethod, classmethod or property decorator is
\* a class_method when its first parameter is named cls and an
\* instance_method otherwise (self, another name, or no parameter).
C8_UndecoratedMethodKind ==
    pc = "returned" =>
       \A f \in OkFiles : \A i \in DirectMethods(f.tree) :
          LET chunks == ChunksFor(f, i, "method")
              decorator_list == f.tree[i].decorator_list
              args == f.tree[i].args
          IN  /\ Len(chunks) = 1
              /\ (\A k \in 1..Len(decorator_list) : ~IsKindDecorator(decorator_list[k]))
                    => chunks[1].metadata.method_type =
                          IF Len(args) > 0 /\ args[1] = "cls" THEN "class_method"
                          ELSE "instance_method"

C8_Witness ==
    /\ pc = "returned"
    /\ \E f \in OkFiles : \E i \in DirectMethods(f.tree) :
          /\ f.tree[i].args = <<"cls", "x">>
          /\ f.tree[i].decorator_list = <<Name("wraps"), Attribute(Name("x"), "setter")>>
          /\ ChunksFor(f, i, "method")[1].metadata.method_type = "class_method"

StructuralTypes == {"function", "class", "method"}

\* the file a document was made from
FileOf(d) == CHOOSE f \in Range(workdir) : AbsPath(f) = d.metadata.source

\* C9: every function, class and method chunk has start_line <= end_line,
\* its end_line is its start_line when the tree node exposes no end line,
\* it spans the lines of a definition of its file when the node does, and its
\* github_link is relative_path#Lstart_line-Lend_line built from the
\* start_line and end_line of its own metadata.
C9_LineSpanAndLink ==
    \A k \in 1..Len(all_documents) :
       LET m == all_documents[k].metadata
           f == FileOf(all_documents[k])
       IN  m.code_type \in StructuralTypes =>
              /\ m.start_line <= m.end_line
              /\ m.start_line >= 1
              /\ f.end_mode # "set" => m.end_line = m.start_line
              /\ f.end_mode = "set" =>
                    \E i \in DOMAIN f.tree : /\ m.start_line = lineno(f.tree, i)
                                             /\ m.end_line = end_lineno(f.tree, i)
              /\ m.github_link = <<m.relative_path, "#L", m.start_line, "-L", m.end_line>>

C9_Witness ==
    /\ pc = "returned"
    /\ \E a, b, c \in 1..Len(all_documents) :
          /\ all_documents[a].metadata.code_type = "class"
          /\ all_documents[a].metadata.start_line < all_documents[a].metadata.end_line
          /\ all_documents[b].metadata.code_type = "method"
          /\ all_documents[b].metadata.start_line < all_documents[b].metadata.end_line
          /\ all_documents[c].metadata.code_type = "function"

\* C10: the relative_path of every chunk, and the path in its github_link
\* when it has one, is the path of its file below the repository root.
C10_RelativePathFromRepoRoot ==
    pc = "returned" =>
       \A k \in 1..Len(all_documents) :
          LET m == all_documents[k].metadata
          IN  /\ m.relative_path = FileOf(all_documents[k]).path
              /\ "github_link" \in DOMAIN m =>
                    m.github_link[1] = FileOf(all_documents[k]).path

-----------------------------------------------------------------------------
(* Properties of query *)

BackendFailed == \E i \in 1..Len(calls) : calls[i].outcome = "error"

\* C3: when retrieval or generation raises during query, the caller gets the
\* fixed fallback answer with an empty source list, and no exception.
C3_BackendFailureGivesFallback ==
    BackendFailed =>
       /\ response.status = "returned"
       /\ response.answer = FallbackAnswer
       /\ response.source_documents = <<>>

C3_Witness ==
    /\ calls = <<Retrieval("ok"), Generation("error")>>
    /\ request.route = "github"
    /\ collection # {}
    /\ response.status = "returned"

IsBlank(question) == \A i \in 1..Len(question) : question[i] = " "

\* C4: an empty or whitespace-only question gets the canned "no question"
\* answer with zero sources, and neither retrieval nor generation is invoked.
C4_BlankQuestionRejected ==
    (request.route # "none" /\ IsBlank(request.question)) =>
       /\ response.status = "returned"
       /\ response.answer = NoQuestionAnswer
       /\ response.source_documents = <<>>
       /\ calls = <<>>

\* C5: query returns at most 3 sources, each of them a stored chunk whose
\* metadata equals the filter on every key of the filter; the filter of
\* /github/query always holds source_type = code, and repo_url and project_id
\* when the request gives them, so that route returns code chunks only.
C5_SourcesMatchFilter ==
    response.status = "returned" =>
       /\ Len(response.source_documents) <= 3
       /\ \A i \in 1..Len(response.source_documents) :
             LET src == response.source_documents[i]
             IN  /\ \E c \in collection : /\ c.metadata = src.metadata
                                          /\ c.page_content = src.content
                 /\ \A key \in DOMAIN request.filter :
                       /\ key \in DOMAIN src.metadata
                       /\ src.metadata[key] = request.filter[key]
                 /\ request.route = "github" => src.metadata.source_type = "code"
       /\ request.route = "github" =>
             /\ "source_type" \in DOMAIN request.filter
             /\ request.filter.source_type = "code"

\* three sources under the three-key filter of /github/query, a nearer chunk
\* of another project having been left out
C5_Witness ==
    /\ response.status = "returned"
    /\ request.route = "github"
    /\ DOMAIN request.filter = {"source_type", "repo_url", "project_id"}
    /\ Len(response.source_documents) = 3
    /\ \E c \in collection : c.id = 1 /\ ~Matches(c.metadata, request.filter)

-----------------------------------------------------------------------------
(* Properties of the source references *)

\* the host of a URL: what follows the scheme and "//"
Host(url) ==
    IF Len(url) >= 4 /\ url[2] = "/" /\ url[3] = "/" THEN url[4] ELSE ""

PublicCodeHosts == {"github.com"}

\* a repository URL with one trailing ".git" removed
StripOneGit(url) ==
    IF Len(url) > 0 /\ url[Len(url)] = ".git" THEN SubSeq(url, 1, Len(url) - 1) ELSE url

Present(m, key) == key \in DOMAIN m /\ Truthy(m[key])

IsCodeChunk(m) == "source_type" \in DOMAIN m /\ m.source_type = "code"

Linkable(m) ==
    /\ IsCodeChunk(m)
    /\ Present(m, "github_link")
    /\ Present(m, "repo_url")
    /\ Host(StripOneGit(m.repo_url)) \in PublicCodeHosts

\* C11: the absolute link of a retrieved code chunk with github_link G and
\* repo_url R on a recognised host is R with one trailing ".git" removed,
\* then /blob/, the chunk's branch (main when the metadata has no branch),
\* then / and G.
C11_AbsoluteLink ==
    response.status = "returned" =>
       \A i \in 1..Len(response.source_documents) :
          LET src == response.source_documents[i]
              m == src.metadata
          IN  Linkable(m) =>
                 /\ "github_url" \in DOMAIN src
                 /\ src.github_url =
                       StripOneGit(m.repo_url)
                       \o <<"/", "blob", "/",
                            IF "branch" \in DOMAIN m THEN m.branch ELSE "main",
                            "/", m.github_link>>

\* two sources with a link: one of a chunk whose URL ends in ".git" and that
\* has no branch, one of a chunk on the branch dev
C11_Witness ==
    /\ response.status = "returned"
    /\ Len(response.source_documents) = 2
    /\ \E i, j \in 1..2 :
          /\ "github_url" \in DOMAIN response.source_documents[i]
          /\ response.source_documents[i].metadata.repo_url = RepoUrl
          /\ "branch" \notin DOMAIN response.source_documents[i].metadata
          /\ "github_url" \in DOMAIN response.source_documents[j]
          /\ Get(response.source_documents[j].metadata, "branch", "main") = "dev"

\* C12: a source reference has an absolute link only if its chunk is a code
\* chunk with a github_link and a repo_url whose host, ".git" stripped, is a
\* public code-hosting domain; every reference, with or without a link,
\* carries the chunk's text and its whole metadata.
C12_LinkOnlyForRecognisedHost ==
    response.status = "returned" =>
       \A i \in 1..Len(response.source_documents) :
          LET src == response.source_documents[i]
          IN  /\ "github_url" \in DOMAIN src => Linkable(src.metadata)
              /\ \E c \in collection : /\ c.page_content = src.content
                                       /\ c.metadata = src.metadata

-----------------------------------------------------------------------------
(* Properties of process_github_repo *)

NoPythonFile(files) == \A i \in 1..Len(files) : ~IsPythonFile(files[i].path)

\* C14: process_github_repo returns the number of chunks it indexed; for a
\* repository without Python files it returns 0; a failure of the clone or
\* of the index backend ends the call with a raised error and no return
\* value, so a returned 0 means that there was nothing to index and that
\* nothing was indexed.
C14_CountReturnedFailuresRaised ==
    /\ pc = "done" =>
          /\ error = "none"
          /\ result = Len(all_documents)
          /\ Cardinality(collection) = result
          /\ NoPythonFile(repo.files) => result = 0
    /\ error # "none" => pc = "raised" /\ result = 0 /\ collection = {}
    /\ pc # "done" => result = 0

\* a repository with a README only has been ingested: 0 returned
C14_Witness ==
    /\ pc = "done"
    /\ result = 0
    /\ workdir # <<>>
    /\ NoPythonFile(workdir)

-----------------------------------------------------------------------------
(* Properties of process_document *)

\* the chunks the last process_document call put in the collection
Indexed == {c \in collection : c.id \in Range(doc_call.ids)}

DocumentIndexed == doc_call.status = "returned" /\ doc_call.backend = "ok"

\* C19: every chunk indexed by process_document(file_path, document_id,
\* metadata) has the document_id given, source = basename(file_path),
\* source_type = document and chunk_index = its 0-based position among the
\* chunks of the document, whatever the caller's metadata and the loader's
\* metadata hold.
C19_DocumentChunkMetadata ==
    DocumentIndexed =>
       /\ Cardinality(Indexed) = Len(doc_call.ids)
       /\ \A k \in 1..Len(doc_call.ids) :
             \A c \in Indexed :
                c.id = doc_call.ids[k] =>
                   /\ Truthy(doc_call.upload.document_id) =>
                         c.metadata.document_id = doc_call.upload.document_id
                   /\ c.metadata.source = path_basename(doc_call.upload.file_path)
                   /\ c.metadata.source_type = "document"
                   /\ c.metadata.chunk_index = k - 1

\* what the loader and the splitter provide for chunk k of a file
LoaderMetadata(u, k) ==
    split_documents(_get_loader(u.file_path), u.file_path, u.content, 1)[k].metadata

\* C20: an indexed chunk holds, for every key the loader provides for it
\* (source, page, start_index), the loader's value: the caller's metadata and
\* the document's fields are merged first, the loader's second, and
\* chunk_index overwrites none of the loader's keys.
C20_LoaderMetadataKept ==
    DocumentIndexed =>
       \A k \in 1..Len(doc_call.ids) :
          \A c \in Indexed :
             c.id = doc_call.ids[k] =>
                LET given == LoaderMetadata(doc_call.upload, k)
                IN  /\ "chunk_index" \notin DOMAIN given
                    /\ \A key \in DOMAIN given :
                          key \in DOMAIN c.metadata /\ c.metadata[key] = given[key]

\* a two-page PDF indexed: the second page's chunk has its page number and
\* chunk_index 1, under a caller's metadata that names source and chunk_index
C20_Witness ==
    /\ DocumentIndexed
    /\ "source" \in DOMAIN doc_call.upload.metadata
    /\ \E c \in Indexed : /\ "page" \in DOMAIN c.metadata
                          /\ c.metadata.page = 1
                          /\ c.metadata.chunk_index = 1

-----------------------------------------------------------------------------
(* Properties of the initialisation *)

\* C15: whatever the number and the interleaving of the initialisations, and
\* whether the collection existed or not, no initialisation fails, every
\* initialisation that has completed holds the one collection of the store,
\* and no step of an initialisation changes the chunks of the collection.
C15_GetOrCreateIdempotent ==
    /\ [](\A i \in DOMAIN inits :
            /\ inits[i] # "failed"
            /\ inits[i] = "ready" => exists)
    /\ [][collection' = collection]_vars

-----------------------------------------------------------------------------
(* Properties of concurrent process_github_repo calls *)

\* C16: two process_github_repo calls that run at once on one pipeline are
\* independent: each call that completes has found, and indexed, exactly the
\* documents process_repository makes of its own repository and branch, as
\* it would alone.
C16_ConcurrentJobsIndependent ==
    /\ pc = "done" =>
          /\ all_documents = process_repository(repo.files, repo.url, repo.branch)
          /\ result = Len(all_documents)
    /\ other.pc = "done" =>
          /\ other.documents = process_repository(other.files, other.url, other.branch)
          /\ other.result = Len(other.documents)

-----------------------------------------------------------------------------
(* Properties of the core as a whole *)

\* C13: a failure of the index backend during process_document or during
\* process_github_repo ends that call with an error raised to its caller.
C13_IndexFailureSurfaced ==
    /\ (doc_call.status # "none" /\ doc_call.backend = "error") => doc_call.status = "raised"
    /\ error = "index" => pc = "raised"

Ids == {c.id : c \in collection}

\* the chunks of the last process_document call and of the completed
\* process_github_repo call are in the collection, one per id
CompletedPresent ==
    /\ (doc_call.status # "none" /\ doc_call.backend = "ok") =>
          /\ Range(doc_call.ids) \subseteq Ids
          /\ Cardinality(Range(doc_call.ids)) = Len(doc_call.ids)
    /\ pc = "done" =>
          \A k \in 1..Len(all_documents) :
             \E c \in collection :
                /\ c.page_content = all_documents[k].page_content
                /\ c.metadata = [project_id |-> project] @@ all_documents[k].metadata

\* C17: chunk ids are pairwise distinct, the chunks of completed calls are
\* in the collection, and every call adds chunks under ids that no stored
\* chunk has: an ingestion repeated with the same document or project id
\* leaves both copies in the collection.
C17_ChunkIdsDistinct ==
    /\ [](/\ Cardinality(Ids) = Cardinality(collection)
          /\ CompletedPresent)
    /\ [][/\ Ids \subseteq Ids'
          /\ Cardinality(Ids') - Cardinality(Ids) = uuid' - uuid
                \/ collection' = collection]_vars

\* both uploads of the one file and the repository are indexed: two copies
\* of every chunk of document d1
C17_Witness ==
    /\ uploads = {}
    /\ pc = "done"
    /\ result > 0
    /\ Cardinality({c \in collection : /\ c.metadata.source_type = "document"
                                        /\ c.metadata.document_id = <<"d1">>
                                        /\ c.metadata.chunk_index = 0}) >= 2

\* C18: whatever step the core takes (of an initialisation, of an ingestion,
\* a query), succeeding or failing, every chunk in the collection before the
\* step is in the collection after it with the same id, text and metadata.
C18_ChunksOnlyAdded ==
    [][\A c \in collection :
          \E d \in collection' : /\ d.id = c.id
                                  /\ d.page_content = c.page_content
                                  /\ d.metadata = c.metadata]_vars

\* a query has returned sources after a repository and a document were added
\* to a collection that held a chunk
C18_Witness ==
    /\ \E c \in collection : c.id = 1
    /\ pc = "done"
    /\ result > 0
    /\ doc_call.status # "none"
    /\ doc_call.backend = "ok"
    /\ response.status = "returned"
    /\ Len(response.source_documents) = K

-----------------------------------------------------------------------------
(* Further properties of process_document and process_github_repo *)

SupportedExtensions == {".pdf", ".PDF", ".md", ".txt", ".docx"}

NothingToIndex(u) ==
    \/ ~u.on_disk
    \/ u.file_path[Len(u.file_path)] \notin SupportedExtensions
    \/ u.content = <<>>
    \/ \A p \in 1..Len(u.content) : u.content[p] = 0

\* C21: process_document on a missing file, on a file with an unsupported
\* extension, on a file that loads no document or on one that splits into
\* no chunk returns without raising and adds no chunk to the collection.
C21_NothingToIndexReturns ==
    (doc_call.status # "none" /\ NothingToIndex(doc_call.upload)) =>
       /\ doc_call.status = "returned"
       /\ doc_call.ids = <<>>
       /\ collection = {}

\* a .csv file that is on disk and has text has been through process_document
C21_Witness ==
    /\ doc_call.status = "returned"
    /\ doc_call.upload.on_disk
    /\ doc_call.upload.file_path[Len(doc_call.upload.file_path)] = ".csv"
    /\ doc_call.upload.content = <<2>>
    /\ collection = {}

\* C22: every chunk indexed by one process_github_repo(repo_url, branch,
\* project_id) call has that call's repo_url, branch and repo_name and one
\* project_id: the one given, or one generated id for the whole call.
C22_RepoChunkMetadata ==
    pc = "done" =>
       /\ Cardinality(collection) = Len(all_documents)
       /\ \A c \in collection : "project_id" \in DOMAIN c.metadata
       /\ \A c \in collection :
             /\ c.metadata.repo_url = repo.url
             /\ c.metadata.branch = repo.branch
             /\ c.metadata.repo_name = repo_name(repo.url)
             /\ Truthy(c.metadata.project_id)
             /\ Truthy(project) => c.metadata.project_id = project
             /\ \A d \in collection : d.metadata.project_id = c.metadata.project_id

\* a fallback chunk, a class chunk, a method chunk and a function chunk
\* indexed by a call on the branch dev that was given no project_id
C22_Witness ==
    /\ pc = "done"
    /\ project = None
    /\ repo.branch = "dev"
    /\ \A t \in {"python_file", "class", "method", "function"} :
          \E c \in collection : c.metadata.code_type = t

\* the last "/"-separated segment of a URL, a trailing ".git" removed
NameOf(url) == StripOneGit(LastSegment(url))

\* C23: the repo_name of every chunk is the last segment of repo_url with only
\* a trailing ".git" removed: a ".git" elsewhere in the name is kept, and a
\* URL without the suffix keeps its last segment.
C23_RepoNameStripsSuffixOnly ==
    pc \in {"returned", "done"} =>
       \A k \in 1..Len(all_documents) :
          all_documents[k].metadata.repo_name = NameOf(repo.url)

-----------------------------------------------------------------------------
(* Properties of the class, method and fallback chunks *)

\* the positions in all_documents of the class chunks made of node i of f
ClassChunkAt(f, i) ==
    {k \in 1..Len(all_documents) :
        /\ all_documents[k].metadata.source = AbsPath(f)
        /\ all_documents[k].metadata.code_type = "class"
        /\ all_documents[k].metadata.start_line = lineno(f.tree, i)}

\* the functions (def statements) defined directly in the body of node i
DirectFunctions(tree, i) ==
    SelectSeq(body(tree, i), LAMBDA j : tree[j].kind = "FunctionDef")

C25_ClassThenItsMethods ==
    pc = "returned" =>
       \A f \in Range(workdir) :
          f.status = "ok" =>
             \A i \in DOMAIN f.tree :
                f.tree[i].kind = "ClassDef" =>
                   /\ Cardinality(ClassChunkAt(f, i)) = 1
                   /\ \A k \in ClassChunkAt(f, i) :
                         LET direct == DirectFunctions(f.tree, i)
                         IN  /\ k + Len(direct) <= Len(all_documents)
                             /\ \A n \in 1..Len(direct) :
                                   LET m == all_documents[k + n].metadata
                                   IN  /\ m.code_type = "method"
                                       /\ m.method_name = f.tree[direct[n]].name
                                       /\ m.class_name = f.tree[i].name
                                       /\ m.start_line = lineno(f.tree, direct[n])
                             /\ (k + Len(direct) < Len(all_documents)) =>
                                   all_documents[k + Len(direct) + 1].metadata.code_type
                                      # "method"

SchemaCodeTypes == {"function", "class", "method", "file_fallback"}

\* C26: every chunk of the extractor has a code_type among function, class,
\* method and file_fallback and carries github_link, start_line, end_line
\* and has_docstring; a method chunk carries class_name, a class chunk
\* methods and class_attrs.
C26_ChunkSchema ==
    \A k \in 1..Len(all_documents) :
       LET m == all_documents[k].metadata
       IN  /\ m.code_type \in SchemaCodeTypes
           /\ {"github_link", "start_line", "end_line", "has_docstring"} \subseteq DOMAIN m
           /\ m.code_type = "method" => "class_name" \in DOMAIN m
           /\ m.code_type = "class" => {"methods", "class_attrs"} \subseteq DOMAIN m

-----------------------------------------------------------------------------
(* Properties of the HTTP handlers *)

\* C28: when an upload or code-ingest request is answered with 500, no row of
\* the request is in the database and no file of the request is in the upload
\* directory.
C28_FailedRequestLeavesNothing ==
    handler.status = 500 => db = {} /\ disk = {}

\* C29: when upload_document of main.py answers 400, the request has a file
\* with an extension outside the allowed ones, and no file of the request has
\* been saved, recorded in documents or queued for ingestion.
C29_StrictBatch ==
    (handler.route = "main.upload" /\ handler.status = 400) =>
       /\ \E i \in 1..Len(handler.files) : ~allowed(handler.files[i])
       /\ disk = {}
       /\ db = {}
       /\ tasks = <<>>

CodeProjects == {r \in db : r.table = "code_projects"}

\* processed is true only once process_github_repo has returned, with the
\* number it returned recorded
ProcessedAfterReturn ==
    \A r \in CodeProjects :
       r.processed =>
          /\ pc = "finished" /\ error = "none"
          /\ r.id = project
          /\ "num_documents" \in DOMAIN r.metadata
          /\ r.metadata.num_documents = result
          /\ result = Cardinality(collection)

\* after a raise the row is not processed and holds the error
ErrorRecorded ==
    (pc = "finished" /\ error # "none") =>
       \A r \in CodeProjects :
          /\ ~r.processed
          /\ "error" \in DOMAIN r.metadata
          /\ r.metadata.error = error

\* the ingestion runs after the request was answered with "processing"
ProcessingAnsweredFirst ==
    pc # "idle" =>
       /\ handler.route = "github.ingest"
       /\ handler.status = 200
       /\ handler.body = "processing"

ProcessedStays ==
    \A r \in CodeProjects :
       r.processed => \E q \in db' : q.table = r.table /\ q.id = r.id /\ q.processed

====
